---- MODULE Spec2Model ----
(***************************************************************************)
(* Publish/subscribe broker of patterns/behavioural/                       *)
(* publish_subscribe_pattern.py: a Provider owning a message queue (a list *)
(* of topic strings) and a registry (a dict from topic to the list of      *)
(* subscribers), with notify / subscribe / unsubscribe / update.           *)
(***************************************************************************)
EXTENDS Integers, Sequences, FiniteSets, TLC

\* ------------------------------------------------------------------ bounds
MaxQueue == 2
MaxSubscriptions == 3
\* The same two, for the runs that record the registry at notify time.
MaxLateQueue == 2
MaxLateSubscriptions == 2
\* SharedState objects created.
MaxInstances == 3
\* Subclasses of Localizable declared after the module's own three.
MaxClasses == 2
\* Prices are the multiples of 25 up to 25 * MaxPrice (875, the price of the
\* file's doctest, at MaxPrice = 35).
MaxPrice == 35
\* The numbers of a MagicNumbers are -1..MaxNumber, at most MaxLen of them.
MaxNumber == 1
MaxLen == 3
\* Stepwise update: messages notified from outside, subscriptions, and the
\* messages an Echo reaction may publish during one update.
MaxWalkQueue == 2
MaxWalkSubscriptions == 2
MaxReplies == 1

\* ------------------------------------------------------------------ inputs
\* Topic strings handed to notify / subscribe / unsubscribe.
Topics == {"ping", "silence"}

\* Subscriber handles.  First and Second are Subscriber objects (run prints);
\* Faulty is a Runnable that keeps the protocol's run, which raises.
Subscribers == {"First", "Second", "Faulty"}

\* What run(message) of a handle does: "print" for Subscriber.run, "raise" for
\* the run of the Runnable protocol (raise NotImplementedError).
run(subscriber) ==
    IF subscriber = "Faulty" THEN "raise" ELSE "print"

\* ---------------------------------------------------- list / dict built-ins
\* list.append(x): x is added at the end.
append(L, x) == L \o <<x>>

\* list.remove(x): the first item equal to x is removed; the caller has
\* checked that x is in L (ValueError otherwise).
remove_all(L, x) == SelectSeq(L, LAMBDA y : y # x)
RECURSIVE remove(_, _)
remove(L, x) ==
    IF L = <<>> THEN <<>>
    ELSE IF Head(L) = x THEN Tail(L)
    ELSE <<Head(L)>> \o remove(Tail(L), x)

\* list.clear()
clear_noop(L) == L
clear(L) == <<>>

\* dict.setdefault(key, default): the dict with key bound to default when the
\* key is absent, the dict itself otherwise.
setdefault_reset(d, key, default) ==
    [k \in DOMAIN d \cup {key} |-> IF k = key THEN default ELSE d[k]]
setdefault(d, key, default) ==
    IF key \in DOMAIN d THEN d
    ELSE [k \in DOMAIN d \cup {key} |-> IF k = key THEN default ELSE d[k]]

\* dict.get(key, default)
get_reversed(d, key, default) ==
    IF key \in DOMAIN d
    THEN [i \in 1..Len(d[key]) |-> d[key][Len(d[key]) + 1 - i]]
    ELSE default
get_elsewhere(d, key, default) ==
    IF DOMAIN d \ {key} = {} THEN default
    ELSE d[CHOOSE k \in DOMAIN d \ {key} : TRUE]
get(d, key, default) ==
    IF key \in DOMAIN d THEN d[key] ELSE default

\* The items of a list.
Items(L) == {L[i] : i \in 1..Len(L)}

\* ---------------------------------------------------------------- Provider
\* Provider.__init__: an empty queue and an empty registry.
EmptyDict == [k \in {} |-> <<>>]
ProviderInit == [message_queue |-> <<>>, subscribers |-> EmptyDict]

\* Provider.notify(message)
notify_front(p, message) ==
    [p |-> [p EXCEPT !.message_queue = <<message>> \o p.message_queue],
     result |-> "ok", calls |-> <<>>]
notify(p, message) ==
    [p |-> [p EXCEPT !.message_queue = append(p.message_queue, message)],
     result |-> "ok", calls |-> <<>>]

\* Provider.subscribe(message, subscriber)
subscribe_dedup(p, message, subscriber) ==
    LET d == setdefault(p.subscribers, message, <<>>)
    IN  [p |-> [p EXCEPT !.subscribers =
                   IF subscriber \in Items(d[message]) THEN d
                   ELSE [d EXCEPT ![message] = append(d[message], subscriber)]],
         result |-> "ok", calls |-> <<>>]
subscribe(p, message, subscriber) ==
    LET d == setdefault(p.subscribers, message, <<>>)
    IN  [p |-> [p EXCEPT !.subscribers =
                   [d EXCEPT ![message] = append(d[message], subscriber)]],
         result |-> "ok", calls |-> <<>>]

\* Provider.unsubscribe(message, subscriber): self.subscribers[message] raises
\* KeyError for an unknown topic, list.remove raises ValueError for a
\* subscriber that is not in the list.
unsubscribe_silent(p, message, subscriber) ==
    LET d == setdefault(p.subscribers, message, <<>>)
    IN  [p |-> [p EXCEPT !.subscribers =
                   [d EXCEPT ![message] = remove(d[message], subscriber)]],
         result |-> "ok", calls |-> <<>>]
unsubscribe_pruning(p, message, subscriber) ==
    IF message \notin DOMAIN p.subscribers
    THEN [p |-> p, result |-> "KeyError", calls |-> <<>>]
    ELSE IF subscriber \notin Items(p.subscribers[message])
    THEN [p |-> p, result |-> "ValueError", calls |-> <<>>]
    ELSE IF Len(p.subscribers[message]) = 1
    THEN [p |-> [p EXCEPT !.subscribers =
                    [k \in DOMAIN p.subscribers \ {message} |-> p.subscribers[k]]],
          result |-> "ok", calls |-> <<>>]
    ELSE [p |-> [p EXCEPT !.subscribers[message] =
                    remove(p.subscribers[message], subscriber)],
          result |-> "ok", calls |-> <<>>]
unsubscribe(p, message, subscriber) ==
    IF message \notin DOMAIN p.subscribers
    THEN [p |-> p, result |-> "KeyError", calls |-> <<>>]
    ELSE IF subscriber \notin Items(p.subscribers[message])
    THEN [p |-> p, result |-> "ValueError", calls |-> <<>>]
    ELSE [p |-> [p EXCEPT !.subscribers[message] =
                    remove(p.subscribers[message], subscriber)],
          result |-> "ok", calls |-> <<>>]

\* The two loops of Provider.update.  i is the index of the outer for over
\* self.message_queue, j the index of the inner for over the topic's list;
\* both lists are read where they are at each step, as Python's list iterators
\* do.  calls records each subscriber.run(message) call made, ran the queue
\* positions for which a run has returned.
RECURSIVE update_loop_isolating(_)
update_loop_isolating(st) ==
    IF st.i > Len(st.p.message_queue)
    THEN IF st.result = "running" THEN [st EXCEPT !.result = "ok"] ELSE st
    ELSE LET message == st.p.message_queue[st.i]
             targets == get(st.p.subscribers, message, <<>>)
         IN  IF st.j > Len(targets)
             THEN update_loop_isolating([st EXCEPT !.i = st.i + 1, !.j = 1])
             ELSE LET subscriber == targets[st.j]
                      called == [st EXCEPT
                                   !.calls = Append(st.calls, <<subscriber, message>>)]
                  IN  IF run(subscriber) = "raise"
                      THEN update_loop_isolating([called EXCEPT
                                                    !.j = st.j + 1,
                                                    !.result = "NotImplementedError"])
                      ELSE update_loop_isolating([called EXCEPT
                                                    !.j = st.j + 1,
                                                    !.ran = st.ran \cup {st.i}])
RECURSIVE update_loop(_)
update_loop(st) ==
    IF st.i > Len(st.p.message_queue)
    THEN [st EXCEPT !.result = "ok"]
    ELSE LET message == st.p.message_queue[st.i]
             targets == get(st.p.subscribers, message, <<>>)
         IN  IF st.j > Len(targets)
             THEN update_loop([st EXCEPT !.i = st.i + 1, !.j = 1])
             ELSE LET subscriber == targets[st.j]
                      called == [st EXCEPT
                                   !.calls = Append(st.calls, <<subscriber, message>>)]
                  IN  IF run(subscriber) = "raise"
                      THEN [called EXCEPT !.result = "NotImplementedError"]
                      ELSE update_loop([called EXCEPT
                                          !.j = st.j + 1,
                                          !.ran = st.ran \cup {st.i}])

UpdateStart(p) ==
    [p |-> p, i |-> 1, j |-> 1, calls |-> <<>>, ran |-> {}, result |-> "running"]

\* Provider.update(): the loops, then message_queue.clear() when the loops
\* ended without an exception.
update_finally(p) ==
    LET st == update_loop(UpdateStart(p))
    IN  [p |-> [st.p EXCEPT !.message_queue = clear(st.p.message_queue)],
         result |-> st.result, calls |-> st.calls, ran |-> st.ran]
update_strict(p) ==
    LET st == update_loop(UpdateStart(p))
    IN  IF p.message_queue # <<>> /\ p.message_queue[1] \notin DOMAIN p.subscribers
        THEN [p |-> p, result |-> "KeyError", calls |-> <<>>, ran |-> {}]
        ELSE IF st.result = "ok"
        THEN [p |-> [st.p EXCEPT !.message_queue = clear(st.p.message_queue)],
              result |-> st.result, calls |-> st.calls, ran |-> st.ran]
        ELSE [p |-> st.p,
              result |-> st.result, calls |-> st.calls, ran |-> st.ran]
update(p) ==
    LET st == update_loop(UpdateStart(p))
    IN  IF st.result = "ok"
        THEN [p |-> [st.p EXCEPT !.message_queue = clear(st.p.message_queue)],
              result |-> st.result, calls |-> st.calls, ran |-> st.ran]
        ELSE [p |-> st.p,
              result |-> st.result, calls |-> st.calls, ran |-> st.ran]

\* ------------------------------------------------- Publisher / Subscriber
\* Publisher.publish(message), p being the provider the publisher holds.
Publisher_publish_once(p, message) ==
    IF message \in Items(p.message_queue)
    THEN [p |-> p, result |-> "ok", calls |-> <<>>]
    ELSE notify(p, message)
Publisher_publish(p, message) == notify(p, message)

\* Subscriber.subscribe(message), self being the calling Subscriber and p the
\* provider it holds.
Subscriber_subscribe(self, p, message) == subscribe(p, message, self)

\* Subscriber.unsubscribe(message)
Subscriber_unsubscribe_quiet(self, p, message) ==
    LET r == unsubscribe(p, message, self)
    IN  IF r.result = "ok" THEN r ELSE [r EXCEPT !.result = "ok"]
Subscriber_unsubscribe(self, p, message) == unsubscribe(p, message, self)

\* The Subscriber objects (the handles that have subscribe / unsubscribe).
SubscriberObjects == {"First", "Second"}

\* ------------------------------------------ borg_pattern.py: SharedState
\* None, and the values given to state.
None == "None"
StateValues == {"foo", "bar", "how now brown cow"}

\* An attribute dictionary without attributes.
NoAttrs == [a \in {} |-> None]

\* hasattr(obj, name) / setattr, on the object's attribute dictionary.
hasattr(d, name) == name \in DOMAIN d
setitem(d, name, value) ==
    [a \in DOMAIN d \cup {name} |-> IF a = name THEN value ELSE d[a]]

\* A new object: it has an attribute dictionary of its own.
NewObject == [shared |-> FALSE, own |-> NoAttrs]

\* The class body of BorgMixin: __monostate = {}
BorgInit ==
    [monostate |-> NoAttrs, instances |-> <<>>, lastWrite |-> None,
     before |-> NoAttrs, last |-> [op |-> "class", inst |-> 0, arg |-> None]]

\* BorgMixin.__init__: self.__dict__ = self.__monostate binds the object's
\* dictionary to the class's one dictionary (shared), it does not copy it.
BorgMixin_init_copy(self, monostate) == [shared |-> FALSE, own |-> monostate]
BorgMixin_init(self, monostate) == [shared |-> TRUE, own |-> NoAttrs]

\* obj.__dict__
dict_of(b, obj) == IF obj.shared THEN b.monostate ELSE obj.own

\* obj.state = value, obj being instance i of b.
setattr_state(b, i, value) ==
    IF b.instances[i].shared
    THEN [b EXCEPT !.monostate = setitem(b.monostate, "state", value)]
    ELSE [b EXCEPT !.instances[i].own = setitem(b.instances[i].own, "state", value)]

\* obj.state: the value, or AttributeError.
getattr_state(b, i) ==
    IF hasattr(dict_of(b, b.instances[i]), "state")
    THEN dict_of(b, b.instances[i])["state"]
    ELSE "AttributeError"

\* SharedState.__init__(state): the new object is the last of b.instances.
SharedState_init_always(b, state) ==
    LET self == BorgMixin_init(NewObject, b.monostate)
        made == [b EXCEPT !.instances = Append(b.instances, self)]
        i == Len(made.instances)
    IN  IF state # None
        THEN setattr_state(made, i, state)
        ELSE setattr_state(made, i, "initialized")
SharedState_init(b, state) ==
    LET self == BorgMixin_init(NewObject, b.monostate)
        made == [b EXCEPT !.instances = Append(b.instances, self)]
        i == Len(made.instances)
    IN  IF state # None
        THEN setattr_state(made, i, state)
        ELSE IF ~hasattr(dict_of(made, self), "state")
        THEN setattr_state(made, i, "initialized")
        ELSE made

\* -------------------- factory_pattern_dynamic_registration.py: Localizable
\* The language arguments of the subclass declarations and of get_localizer.
Languages == {"english", "french", "French", "GERMAN", "german"}

\* str.lower() on these strings.
lower(language) ==
    CASE language = "French" -> "french"
      [] language = "GERMAN" -> "german"
      [] OTHER -> language

\* Localizable.__init_subclass__(cls, language): the registry after it.
init_subclass(registry, cls, language) ==
    IF language # None
    THEN setitem(registry, lower(language), cls)
    ELSE registry

\* The registry once the module is loaded: registry = {} and the three class
\* statements of the module.
LocalizableInit ==
    [registry |-> init_subclass(
                      init_subclass(
                          init_subclass(NoAttrs, "EnglishLocalizer", "english"),
                          "GreekLocalizer", "greek"),
                      "SpanishLocalizer", "spanish"),
     declared |-> <<>>,
     last |-> [op |-> "import", cls |-> None, language |-> None,
               result |-> "ok", instance_of |-> None]]

\* get_localizer(language): an instance of the registered class, or the
\* KeyError of the registry lookup.
get_localizer(registry, language) ==
    IF language \in DOMAIN registry
    THEN [result |-> "ok", instance_of |-> registry[language]]
    ELSE [result |-> "KeyError", instance_of |-> None]

\* The classes user code declares.
UserClasses == {"FrenchLocalizer", "GermanLocalizer", "KlingonLocalizer"}

\* ------------------------- 01_single_responsibility_principle.py: discounts
\* Prices, in units of the currency: the multiples of 25, for which
\* price / 100 is a multiple of 0.25 and the float arithmetic of the source
\* is exact.  The amounts the methods return are held in HUNDREDTHS of the
\* unit (87.5 is 8750), so that price / 100 * k is the whole number
\* price * k for every whole price: no fraction is cut off.
Prices == {25 * k : k \in 0..MaxPrice}

Recipients == {"tenpercent@foobar.com", "fiftypercent@foobar.com", "foo@bar.com"}

\* OrderManager.calculate_discount, for self.price (in units) and
\* self.recipient; the value returned, in hundredths: price / 100 * 10 is
\* price * 10 hundredths, price / 100 * 50 is price * 50 hundredths, and
\* price is price * 100 hundredths.
calculate_discount(price, recipient) ==
    IF recipient = "tenpercent@foobar.com" THEN price * 10
    ELSE IF recipient = "fiftypercent@foobar.com" THEN price * 50
    ELSE price * 100

\* TenPercentDiscountStrategy.calculate / FiftyPercentDiscountStrategy.calculate
\* for a price in units; the value returned, in hundredths: price / 100 * 90
\* and price / 100 * 50.
TenPercentDiscountStrategy_calculate(price) == price * 90
FiftyPercentDiscountStrategy_calculate(price) == price * 50

\* Discounter.get_discount(price), for the strategy the Discounter holds;
\* price in units, the value returned in hundredths.
get_discount(discountable, price) ==
    IF discountable = "TenPercentDiscountStrategy"
    THEN TenPercentDiscountStrategy_calculate(price)
    ELSE FiftyPercentDiscountStrategy_calculate(price)

Strategies == {"TenPercentDiscountStrategy", "FiftyPercentDiscountStrategy"}

\* No OrderManager made yet.
OrderInit ==
    [made |-> FALSE, price |-> 0, recipient |-> "",
     calculated |-> FALSE, discount |-> 0,
     discountable |-> "", total |-> 0]

\* ------------------------------------------- strategy_pattern.py: sorting
Numbers == -1..MaxNumber

\* sorted(numbers): ascending, equal items in their original order.
RECURSIVE insert(_, _)
insert(L, x) ==
    IF L = <<>> THEN <<x>>
    ELSE IF x < Head(L) THEN <<x>> \o L
    ELSE <<Head(L)>> \o insert(Tail(L), x)
RECURSIVE sorted(_)
sorted(numbers) ==
    IF numbers = <<>> THEN <<>>
    ELSE insert(sorted(SubSeq(numbers, 1, Len(numbers) - 1)), numbers[Len(numbers)])

\* reversed(numbers), as a list
reversed(numbers) ==
    [i \in 1..Len(numbers) |-> numbers[Len(numbers) + 1 - i]]

\* random.shuffle(numbers): the orders one call may leave the list in, every
\* permutation of it, its present order included.
shuffle(numbers) ==
    {[i \in 1..Len(numbers) |-> numbers[f[i]]] :
        f \in {g \in [1..Len(numbers) -> 1..Len(numbers)] :
                  \A a, b \in 1..Len(numbers) : a # b => g[a] # g[b]}}

\* Sorted.sort and Reverse.sort
Sorted_sort(numbers) == sorted(numbers)
Reverse_sort_inside(numbers) == sorted(reversed(numbers))
Reverse_sort(numbers) == reversed(sorted(numbers))

\* MagicNumbers.sort_data, for self.data and self.sortable.
sort_data(data, sortable) ==
    IF sortable = "Sorted" THEN Sorted_sort(data) ELSE Reverse_sort(data)

Sortables == {"Sorted", "Reverse"}

\* No MagicNumbers made yet.
MagicInit ==
    [made |-> FALSE, data |-> <<>>, sortable |-> "",
     done |-> [x \in Sortables |-> FALSE],
     out |-> [x \in Sortables |-> <<>>],
     again |-> FALSE, earlier |-> <<>>, last |-> "none"]

\* ------------------------------------------ reactions that call the provider
\* Runnables whose run calls back into the provider that is delivering to
\* them: First is a Subscriber (run prints); Echo is a Subscriber whose run
\* also publishes EchoMessage while it has replies left; Leaver is a
\* Subscriber whose run calls self.unsubscribe(message).
Reactors == {"First", "Echo", "Leaver"}
EchoMessage == "ping"

\* subscriber.run(message) on provider p: the provider after the call, how the
\* call ended, and the replies Echo has left.
Runnable_run(self, p, message, replies) ==
    IF run(self) = "raise"
    THEN [p |-> p, result |-> "NotImplementedError", replies |-> replies]
    ELSE IF self = "Echo" /\ replies > 0
    THEN [p |-> Publisher_publish(p, EchoMessage).p,
          result |-> Publisher_publish(p, EchoMessage).result,
          replies |-> replies - 1]
    ELSE IF self = "Leaver"
    THEN [p |-> Subscriber_unsubscribe(self, p, message).p,
          result |-> Subscriber_unsubscribe(self, p, message).result,
          replies |-> replies]
    ELSE [p |-> p, result |-> "ok", replies |-> replies]

\* No update is running and none has been observed.
WalkInit ==
    [pc |-> "idle", i |-> 1, j |-> 1, calls |-> <<>>, replies |-> 0,
     granted |-> 0, result |-> "none", began |-> ProviderInit, exit |-> 0, cleared |-> <<>>,
     late |-> 0]

\* provider.update() is entered: both loop indices at the start.
update_begin(p, replies) ==
    [WalkInit EXCEPT !.pc = "loop", !.replies = replies, !.granted = replies,
                     !.began = p]

\* One step of Provider.update on provider p, w being the position of the
\* call.  In the loops (pc = "loop") a step is one advance of a for loop: the
\* outer iterator finds the queue exhausted (on to clear), the inner iterator
\* finds the topic's list exhausted (on to the next message), or one
\* subscriber.run(message) call is made; both lists are read by index where
\* they are at that step.  At pc = "clear" the step is message_queue.clear()
\* and the return.  calls records <<subscriber, message, queue index>>.
update_step_snapshot(p, w) ==
    IF w.pc = "clear"
    THEN [p |-> [p EXCEPT !.message_queue = clear(p.message_queue)],
          w |-> [w EXCEPT !.pc = "idle", !.result = "ok",
                          !.cleared = p.message_queue]]
    ELSE IF w.i > Len(w.began.message_queue)
    THEN [p |-> p, w |-> [w EXCEPT !.pc = "clear", !.exit = Len(p.message_queue)]]
    ELSE LET message == p.message_queue[w.i]
             targets == get(p.subscribers, message, <<>>)
         IN  IF w.j > Len(targets)
             THEN [p |-> p, w |-> [w EXCEPT !.i = w.i + 1, !.j = 1]]
             ELSE LET r == Runnable_run(targets[w.j], p, message, w.replies)
                      called == [w EXCEPT !.calls =
                                   Append(w.calls, <<targets[w.j], message, w.i>>)]
                  IN  IF r.result # "ok"
                      THEN [p |-> r.p,
                            w |-> [called EXCEPT !.pc = "idle", !.result = r.result]]
                      ELSE [p |-> r.p,
                            w |-> [called EXCEPT !.j = w.j + 1, !.replies = r.replies]]
update_step(p, w) ==
    IF w.pc = "clear"
    THEN [p |-> [p EXCEPT !.message_queue = clear(p.message_queue)],
          w |-> [w EXCEPT !.pc = "idle", !.result = "ok",
                          !.cleared = p.message_queue]]
    ELSE IF w.i > Len(p.message_queue)
    THEN [p |-> p, w |-> [w EXCEPT !.pc = "clear", !.exit = Len(p.message_queue)]]
    ELSE LET message == p.message_queue[w.i]
             targets == get(p.subscribers, message, <<>>)
         IN  IF w.j > Len(targets)
             THEN [p |-> p, w |-> [w EXCEPT !.i = w.i + 1, !.j = 1]]
             ELSE LET r == Runnable_run(targets[w.j], p, message, w.replies)
                      called == [w EXCEPT !.calls =
                                   Append(w.calls, <<targets[w.j], message, w.i>>)]
                  IN  IF r.result # "ok"
                      THEN [p |-> r.p,
                            w |-> [called EXCEPT !.pc = "idle", !.result = r.result]]
                      ELSE [p |-> r.p,
                            w |-> [called EXCEPT !.j = w.j + 1, !.replies = r.replies]]

\* ------------------------------------------------------------------- state
VARIABLES
    message_queue,  \* Provider.message_queue
    subscribers,    \* Provider.subscribers
    lastOp,         \* the last call made on the provider, with its arguments
    result,         \* how that call ended: "ok" or the exception raised
    reactions,      \* the run(message) calls that call made, in order
    pre,            \* the provider as it was when that call began
    delivered,      \* per queue entry: "no", or how the last update that ran a
                    \* reaction for it ended ("returned" / "aborted")
    redelivered,    \* did that call run a reaction for an entry already delivered
    late,           \* per queue entry, the members of the topic's list when
                    \* the entry was notified (notified), and these sets as
                    \* the last call, an update, found them (handled)
    borg,           \* BorgMixin's shared dictionary, the SharedState objects,
                    \* the last construction or write and the dictionary
                    \* before it
    localizable,    \* Localizable.registry, the subclasses declared by user
                    \* code and the last declaration or get_localizer call
    order,          \* an OrderManager's price and recipient, what
                    \* calculate_discount returned, and what a Discounter
                    \* returned for the same price (price in units, the
                    \* values returned in hundredths)
    magic,          \* a MagicNumbers' data and strategy, what sort_data
                    \* returned per strategy (out), and what the strategy had
                    \* returned for an earlier order of the data (earlier)
    walk            \* a provider.update() followed step by step: where the
                    \* call is (pc, i, j), the run calls it has made, the
                    \* replies Echo had and has left (granted, replies), the
                    \* provider when it began (began), the queue length when
                    \* the outer loop ended (exit), the queue that clear()
                    \* emptied (cleared) and how many of its messages were
                    \* notified after the loop had ended (late)

vars == <<message_queue, subscribers, lastOp, result, reactions, pre,
          delivered, redelivered, late, borg, localizable, order, magic,
          walk>>

\* The provider and what is observed of it.
broker == <<message_queue, subscribers, lastOp, result, reactions, pre,
            delivered, redelivered, late, walk>>

\* The state outside the calls made directly on the Provider.
elsewhere == <<late, borg, localizable, order, magic, walk>>

\* The state a stepwise update leaves alone.
outside == <<lastOp, result, reactions, pre, delivered, redelivered, late,
             borg, localizable, order, magic>>

Provider == [message_queue |-> message_queue, subscribers |-> subscribers]

RECURSIVE SumLen(_, _)
SumLen(d, keys) ==
    IF keys = {} THEN 0
    ELSE LET k == CHOOSE x \in keys : TRUE
         IN  Len(d[k]) + SumLen(d, keys \ {k})

Subscriptions(d) == SumLen(d, DOMAIN d)

Init ==
    /\ message_queue = ProviderInit.message_queue
    /\ subscribers = ProviderInit.subscribers
    /\ lastOp = [op |-> "init", message |-> "", subscriber |-> ""]
    /\ result = "ok"
    /\ reactions = <<>>
    /\ pre = ProviderInit
    /\ delivered = <<>>
    /\ redelivered = FALSE
    /\ late = [notified |-> <<>>, handled |-> <<>>]
    /\ borg = BorgInit
    /\ localizable = LocalizableInit
    /\ order = OrderInit
    /\ magic = MagicInit
    /\ walk = WalkInit

Notify(message) ==
    /\ Len(message_queue) < MaxQueue
    /\ LET r == notify(Provider, message)
       IN  /\ message_queue' = r.p.message_queue
           /\ subscribers' = r.p.subscribers
           /\ result' = r.result
           /\ reactions' = r.calls
           /\ delivered' = [i \in 1..Len(r.p.message_queue) |->
                               IF i <= Len(delivered) THEN delivered[i] ELSE "no"]
    /\ lastOp' = [op |-> "notify", message |-> message, subscriber |-> ""]
    /\ pre' = Provider
    /\ redelivered' = FALSE
    /\ UNCHANGED elsewhere

Subscribe(message, subscriber) ==
    /\ Subscriptions(subscribers) < MaxSubscriptions
    /\ LET r == subscribe(Provider, message, subscriber)
       IN  /\ message_queue' = r.p.message_queue
           /\ subscribers' = r.p.subscribers
           /\ result' = r.result
           /\ reactions' = r.calls
    /\ lastOp' = [op |-> "subscribe", message |-> message, subscriber |-> subscriber]
    /\ pre' = Provider
    /\ redelivered' = FALSE
    /\ UNCHANGED delivered
    /\ UNCHANGED elsewhere

Unsubscribe(message, subscriber) ==
    /\ LET r == unsubscribe(Provider, message, subscriber)
       IN  /\ message_queue' = r.p.message_queue
           /\ subscribers' = r.p.subscribers
           /\ result' = r.result
           /\ reactions' = r.calls
    /\ lastOp' = [op |-> "unsubscribe", message |-> message, subscriber |-> subscriber]
    /\ pre' = Provider
    /\ redelivered' = FALSE
    /\ UNCHANGED delivered
    /\ UNCHANGED elsewhere

Update ==
    /\ LET r == update(Provider)
       IN  /\ message_queue' = r.p.message_queue
           /\ subscribers' = r.p.subscribers
           /\ result' = r.result
           /\ reactions' = r.calls
           /\ delivered' = [i \in 1..Len(r.p.message_queue) |->
                               IF i \in r.ran
                               THEN IF r.result = "ok" THEN "returned" ELSE "aborted"
                               ELSE IF i <= Len(delivered) THEN delivered[i] ELSE "no"]
           /\ redelivered' = \E i \in r.ran : i <= Len(delivered) /\ delivered[i] # "no"
    /\ lastOp' = [op |-> "update", message |-> "", subscriber |-> ""]
    /\ pre' = Provider
    /\ UNCHANGED elsewhere

Next ==
    \/ \E message \in Topics : Notify(message)
    \/ \E message \in Topics, subscriber \in Subscribers : Subscribe(message, subscriber)
    \/ \E message \in Topics, subscriber \in Subscribers : Unsubscribe(message, subscriber)
    \/ Update

Spec == Init /\ [][Next]_vars

\* ---------------------------------------- calls made through the clients
\* The provider's state and the observation of a call that ended as r.
Returned(op, message, subscriber, r) ==
    /\ message_queue' = r.p.message_queue
    /\ subscribers' = r.p.subscribers
    /\ result' = r.result
    /\ reactions' = r.calls
    /\ lastOp' = [op |-> op, message |-> message, subscriber |-> subscriber]
    /\ pre' = Provider
    /\ UNCHANGED <<delivered, redelivered, borg, localizable, order, magic, walk>>

\* publisher.publish(message)
Publish(message) ==
    /\ Len(message_queue) < MaxQueue
    /\ Returned("Publisher.publish", message, "", Publisher_publish(Provider, message))
    /\ UNCHANGED late

\* subscriber.subscribe(message)
SubscriberSubscribe(self, message) ==
    /\ Subscriptions(subscribers) < MaxSubscriptions
    /\ Returned("Subscriber.subscribe", message, self,
                Subscriber_subscribe(self, Provider, message))
    /\ UNCHANGED late

\* subscriber.unsubscribe(message)
SubscriberUnsubscribe(self, message) ==
    /\ Returned("Subscriber.unsubscribe", message, self,
                Subscriber_unsubscribe(self, Provider, message))
    /\ UNCHANGED late

\* provider.update()
ClientUpdate ==
    /\ Returned("update", "", "", update(Provider))
    /\ UNCHANGED late

NextClients ==
    \/ \E message \in Topics : Publish(message)
    \/ \E self \in SubscriberObjects, message \in Topics :
           SubscriberSubscribe(self, message)
    \/ \E self \in SubscriberObjects, message \in Topics :
           SubscriberUnsubscribe(self, message)
    \/ ClientUpdate

SpecClients == Init /\ [][NextClients]_vars

\* ------------------------- Provider calls, with the registry at notify time
LateNotify(message) ==
    /\ Len(message_queue) < MaxLateQueue
    /\ Returned("notify", message, "", notify(Provider, message))
    /\ late' = [notified |-> Append(late.notified,
                                    Items(get(subscribers, message, <<>>))),
                handled |-> <<>>]

LateSubscribe(message, subscriber) ==
    /\ Subscriptions(subscribers) < MaxLateSubscriptions
    /\ Returned("subscribe", message, subscriber,
                subscribe(Provider, message, subscriber))
    /\ late' = [late EXCEPT !.handled = <<>>]

LateUnsubscribe(message, subscriber) ==
    /\ Returned("unsubscribe", message, subscriber,
                unsubscribe(Provider, message, subscriber))
    /\ late' = [late EXCEPT !.handled = <<>>]

LateUpdate ==
    /\ Returned("update", "", "", update(Provider))
    /\ late' = [notified |-> IF update(Provider).result = "ok"
                             THEN <<>> ELSE late.notified,
                handled |-> late.notified]

NextLate ==
    \/ \E message \in Topics : LateNotify(message)
    \/ \E message \in Topics, subscriber \in SubscriberObjects :
           LateSubscribe(message, subscriber)
    \/ \E message \in Topics, subscriber \in SubscriberObjects :
           LateUnsubscribe(message, subscriber)
    \/ LateUpdate

SpecLate == Init /\ [][NextLate]_vars

\* ------------------------------------------------------------ SharedState
\* SharedState(state=state), state None for SharedState()
Construct(state) ==
    /\ Len(borg.instances) < MaxInstances
    /\ borg' = [SharedState_init(borg, state) EXCEPT
                  !.before = borg.monostate,
                  !.last = [op |-> "SharedState", inst |-> Len(borg.instances) + 1,
                            arg |-> state],
                  !.lastWrite = IF state # None THEN state
                                ELSE IF hasattr(borg.monostate, "state")
                                THEN borg.lastWrite
                                ELSE "initialized"]
    /\ UNCHANGED <<broker, localizable, order, magic>>

\* instance.state = value
SetState(i, value) ==
    /\ i \in 1..Len(borg.instances)
    /\ borg' = [setattr_state(borg, i, value) EXCEPT
                  !.before = borg.monostate,
                  !.last = [op |-> "setattr", inst |-> i, arg |-> value],
                  !.lastWrite = value]
    /\ UNCHANGED <<broker, localizable, order, magic>>

NextBorg ==
    \/ \E state \in StateValues \cup {None} : Construct(state)
    \/ \E i \in 1..MaxInstances, value \in StateValues \cup {None} : SetState(i, value)

SpecBorg == Init /\ [][NextBorg]_vars

\* ------------------------------------------------------------ Localizable
\* class cls(Localizable, language=language), with localize implemented.
Declare(cls, language) ==
    /\ Len(localizable.declared) < MaxClasses
    /\ \A i \in 1..Len(localizable.declared) : localizable.declared[i].cls # cls
    /\ localizable' =
           [registry |-> init_subclass(localizable.registry, cls, language),
            declared |-> Append(localizable.declared,
                                [cls |-> cls, language |-> language]),
            last |-> [op |-> "class", cls |-> cls, language |-> language,
                      result |-> "ok", instance_of |-> None]]
    /\ UNCHANGED <<broker, borg, order, magic>>

\* get_localizer(language)
GetLocalizer(language) ==
    /\ localizable' =
           [localizable EXCEPT
              !.last = [op |-> "get_localizer", cls |-> None, language |-> language,
                        result |-> get_localizer(localizable.registry, language).result,
                        instance_of |->
                            get_localizer(localizable.registry, language).instance_of]]
    /\ UNCHANGED <<broker, borg, order, magic>>

NextLocalizable ==
    \/ \E cls \in UserClasses, language \in Languages \cup {None} :
           Declare(cls, language)
    \/ \E language \in Languages \cup {"greek", "klingon"} : GetLocalizer(language)

SpecLocalizable == Init /\ [][NextLocalizable]_vars

\* -------------------------------------------------------------- discounts
\* OrderManager(price, recipient)
NewOrder(price, recipient) ==
    /\ order' = [OrderInit EXCEPT !.made = TRUE, !.price = price,
                                  !.recipient = recipient]
    /\ UNCHANGED <<broker, borg, localizable, magic>>

\* order_manager.calculate_discount()
CalculateDiscount ==
    /\ order.made
    /\ order' = [order EXCEPT
                   !.calculated = TRUE,
                   !.discount = calculate_discount(order.price, order.recipient)]
    /\ UNCHANGED <<broker, borg, localizable, magic>>

\* Discounter(discountable).get_discount(price), for the order's price
GetDiscount(discountable) ==
    /\ order.made
    /\ order' = [order EXCEPT
                   !.discountable = discountable,
                   !.total = get_discount(discountable, order.price)]
    /\ UNCHANGED <<broker, borg, localizable, magic>>

NextDiscount ==
    \/ \E price \in Prices, recipient \in Recipients : NewOrder(price, recipient)
    \/ CalculateDiscount
    \/ \E discountable \in Strategies : GetDiscount(discountable)

SpecDiscount == Init /\ [][NextDiscount]_vars

\* ---------------------------------------------------------------- sorting
\* MagicNumbers(data, sortable) over a new list of numbers
NewNumbers(data, sortable) ==
    /\ magic' = [MagicInit EXCEPT !.made = TRUE, !.data = data,
                                  !.sortable = sortable, !.last = "MagicNumbers"]
    /\ UNCHANGED <<broker, borg, localizable, order>>

\* MagicNumbers(numbers, sortable) over the same list, with another strategy
NewContext(sortable) ==
    /\ magic.made
    /\ magic' = [magic EXCEPT !.sortable = sortable, !.last = "MagicNumbers"]
    /\ UNCHANGED <<broker, borg, localizable, order>>

\* random.shuffle(numbers): the list is reordered in place and is left in
\* the given order.
Shuffle(numbers) ==
    /\ magic.made
    /\ numbers \in shuffle(magic.data)
    /\ magic' = [magic EXCEPT !.data = numbers, !.last = "shuffle"]
    /\ UNCHANGED <<broker, borg, localizable, order>>

\* context.sort_data()
SortData ==
    /\ magic.made
    /\ magic' = [magic EXCEPT
                   !.done[magic.sortable] = TRUE,
                   !.out[magic.sortable] = sort_data(magic.data, magic.sortable),
                   !.again = magic.done[magic.sortable],
                   !.earlier = magic.out[magic.sortable],
                   !.last = "sort_data"]
    /\ UNCHANGED <<broker, borg, localizable, order>>

DataLists == UNION {[1..n -> Numbers] : n \in 0..MaxLen}

NextSorting ==
    \/ \E data \in DataLists, sortable \in Sortables : NewNumbers(data, sortable)
    \/ \E sortable \in Sortables : NewContext(sortable)
    \/ \E numbers \in shuffle(magic.data) : Shuffle(numbers)
    \/ SortData

SpecSorting == Init /\ [][NextSorting]_vars

\* ------------------------------------- update step by step, one thread
\* provider.notify(message) between two updates
WalkNotify(message) ==
    /\ walk.pc = "idle"
    /\ Len(message_queue) < MaxWalkQueue
    /\ message_queue' = notify(Provider, message).p.message_queue
    /\ subscribers' = notify(Provider, message).p.subscribers
    /\ walk' = WalkInit
    /\ UNCHANGED outside

\* provider.subscribe(message, subscriber) between two updates
WalkSubscribe(message, subscriber) ==
    /\ walk.pc = "idle"
    /\ Subscriptions(subscribers) < MaxWalkSubscriptions
    /\ message_queue' = subscribe(Provider, message, subscriber).p.message_queue
    /\ subscribers' = subscribe(Provider, message, subscriber).p.subscribers
    /\ walk' = WalkInit
    /\ UNCHANGED outside

\* provider.update() is called, Echo having replies left to publish.
UpdateBegin(replies) ==
    /\ walk.pc = "idle"
    /\ walk' = update_begin(Provider, replies)
    /\ UNCHANGED <<message_queue, subscribers>>
    /\ UNCHANGED outside

\* The running update advances one of its loops.
UpdateIterate ==
    /\ walk.pc = "loop"
    /\ message_queue' = update_step(Provider, walk).p.message_queue
    /\ subscribers' = update_step(Provider, walk).p.subscribers
    /\ walk' = update_step(Provider, walk).w
    /\ UNCHANGED outside

\* The running update clears the queue and returns.
UpdateClear ==
    /\ walk.pc = "clear"
    /\ message_queue' = update_step(Provider, walk).p.message_queue
    /\ subscribers' = update_step(Provider, walk).p.subscribers
    /\ walk' = update_step(Provider, walk).w
    /\ UNCHANGED outside

NextReentrant ==
    \/ \E message \in Topics : WalkNotify(message)
    \/ \E message \in Topics, subscriber \in Reactors :
           WalkSubscribe(message, subscriber)
    \/ \E replies \in 0..MaxReplies : UpdateBegin(replies)
    \/ UpdateIterate
    \/ UpdateClear

\* The thread that called update keeps running it.
SpecReentrant ==
    /\ Init
    /\ [][NextReentrant]_vars
    /\ WF_vars(UpdateIterate)
    /\ WF_vars(UpdateClear)

\* ------------------------- update step by step, notify from another thread
\* provider.notify(message) by another thread while update is running; late
\* counts the messages that arrive after the outer loop has ended.
ThreadNotify(message) ==
    /\ walk.pc # "idle"
    /\ Len(message_queue) < MaxWalkQueue
    /\ message_queue' = notify(Provider, message).p.message_queue
    /\ subscribers' = notify(Provider, message).p.subscribers
    /\ walk' = [walk EXCEPT !.late = IF walk.pc = "clear" THEN @ + 1 ELSE @]
    /\ UNCHANGED outside

NextThreads ==
    \/ \E message \in Topics : WalkNotify(message)
    \/ \E message \in Topics, subscriber \in Reactors :
           WalkSubscribe(message, subscriber)
    \/ \E replies \in 0..MaxReplies : UpdateBegin(replies)
    \/ UpdateIterate
    \/ UpdateClear
    \/ \E message \in Topics : ThreadNotify(message)

SpecThreads == Init /\ [][NextThreads]_vars

TypeOK ==
    /\ message_queue \in Seq(Topics)
    /\ DOMAIN subscribers \subseteq Topics
    /\ \A t \in DOMAIN subscribers :
           subscribers[t] \in Seq(Subscribers \cup Reactors)
\* ------------------------------------------------------------ claim helpers
\* The number of positions of L holding x.
Count(L, x) == Cardinality({i \in 1..Len(L) : L[i] = x})

\* The list registered for a topic, read from the registry itself.
Registered(d, topic) == IF topic \in DOMAIN d THEN d[topic] ELSE <<>>

\* The run calls a complete delivery of queue q over registry d has to make:
\* message by message, each message's registered list from first to last.
RECURSIVE Expected(_, _)
Expected(q, d) ==
    IF q = <<>> THEN <<>>
    ELSE [i \in 1..Len(Registered(d, Head(q))) |->
             <<Registered(d, Head(q))[i], Head(q)>>] \o Expected(Tail(q), d)

UpdateReturned == lastOp.op = "update" /\ result = "ok"
UpdateRaised == lastOp.op = "update" /\ result # "ok"

\* ------------------------------------------------------------------ claims
\* C1: an update in which no reaction raises runs the reactions message by
\* message in queue (FIFO) order, and for each message its topic's subscribers
\* in subscription order, each once per queued notification.
C1_FifoFanout ==
    UpdateReturned => reactions = Expected(pre.message_queue, pre.subscribers)

\* First and Second on "ping", two notifications: First, Second, First, Second.
C1_Witness ==
    /\ UpdateReturned
    /\ reactions = << <<"First", "ping">>, <<"Second", "ping">>,
                      <<"First", "ping">>, <<"Second", "ping">> >>

\* C2: whenever update returns, the message queue is empty.
C2_QueueEmptyAfterUpdate ==
    UpdateReturned => message_queue = <<>>

C2_Witness ==
    /\ UpdateReturned
    /\ Len(pre.message_queue) = MaxQueue
    /\ reactions # <<>>

\* C3 as claimed: the queue is empty once an update call has ended, also when
\* a reaction raised during the loop.
C3_ClearedEvenOnRaise ==
    UpdateRaised => message_queue = <<>>

\* C3 as amended: update clears the queue when the loops complete; when a
\* reaction raises, the exception leaves update before the clear and the queue
\* holds every message it held before the call.
C3_ClearedOnlyOnCompletion ==
    /\ UpdateReturned => message_queue = <<>>
    /\ UpdateRaised => message_queue = pre.message_queue /\ message_queue # <<>>

C3_Witness ==
    /\ UpdateRaised
    /\ Len(message_queue) = 2
    /\ Len(reactions) >= 2

\* C4 as claimed: no update runs a reaction for a queue entry for which an
\* earlier update already ran one.
C4_DeliveredAtMostOnce ==
    ~redelivered

\* C4 as amended: an entry for which an update that returned has run a
\* reaction is no longer queued, so no later update delivers it; the entries
\* still queued after a delivery are those of an update that a reaction
\* aborted.
C4_NoRedeliveryAfterReturn ==
    \A i \in 1..Len(delivered) : delivered[i] # "returned"

\* An entry delivered by an aborted update is delivered again by an update
\* that returns.
C4_Witness ==
    /\ UpdateReturned
    /\ redelivered

\* C5: unsubscribe for a topic without a list, or for a subscriber that is not
\* in the topic's list, raises to the caller and changes neither the registry
\* nor the queue.
C5_UnsubscribeMissingFails ==
    (/\ lastOp.op = "unsubscribe"
     /\ \/ lastOp.message \notin DOMAIN pre.subscribers
        \/ Count(pre.subscribers[lastOp.message], lastOp.subscriber) = 0)
    => /\ result \in {"KeyError", "ValueError"}
       /\ subscribers = pre.subscribers
       /\ message_queue = pre.message_queue

\* A subscriber missing from a topic that has other subscribers, with messages
\* queued.
C5_Witness ==
    /\ lastOp.op = "unsubscribe"
    /\ result = "ValueError"
    /\ subscribers[lastOp.message] # <<>>
    /\ message_queue # <<>>

\* C6: a successful unsubscribe removes the first occurrence of the subscriber
\* from the topic's list and nothing else; the other entries keep their order,
\* other topics and the queue are unchanged.
C6_RemovesFirstOccurrence ==
    (lastOp.op = "unsubscribe" /\ result = "ok")
    => LET old == pre.subscribers[lastOp.message]
           k == CHOOSE n \in 1..Len(old) :
                    /\ old[n] = lastOp.subscriber
                    /\ \A m \in 1..(n - 1) : old[m] # lastOp.subscriber
       IN  /\ DOMAIN subscribers = DOMAIN pre.subscribers
           /\ Len(subscribers[lastOp.message]) = Len(old) - 1
           /\ \A i \in 1..(Len(old) - 1) :
                  subscribers[lastOp.message][i] = IF i < k THEN old[i] ELSE old[i + 1]
           /\ \A t \in DOMAIN subscribers \ {lastOp.message} :
                  subscribers[t] = pre.subscribers[t]
           /\ message_queue = pre.message_queue

C6_Witness ==
    /\ lastOp.op = "unsubscribe" /\ result = "ok"
    /\ lastOp.subscriber = "First"
    /\ pre.subscribers[lastOp.message] = <<"First", "Second", "First">>
    /\ subscribers[lastOp.message] = <<"Second", "First">>

\* C7: subscribe does not deduplicate (each call adds one occurrence), and an
\* update that returns runs a handle once per occurrence in the topic's list
\* for each queued notification of the topic.
C7_NoDeduplication ==
    /\ lastOp.op = "subscribe"
       => Count(subscribers[lastOp.message], lastOp.subscriber)
          = Count(Registered(pre.subscribers, lastOp.message), lastOp.subscriber) + 1
    /\ UpdateReturned
       => \A t \in Topics, s \in Subscribers :
              Count(reactions, <<s, t>>)
              = Count(pre.message_queue, t) * Count(Registered(pre.subscribers, t), s)

\* First subscribed twice to "ping", one notification: two reactions.
C7_Witness ==
    /\ UpdateReturned
    /\ Registered(pre.subscribers, "ping") = <<"First", "First">>
    /\ pre.message_queue = <<"ping">>
    /\ reactions = << <<"First", "ping">>, <<"First", "ping">> >>

\* C8: notify succeeds, appends the topic at the end of the queue, runs no
\* reaction and leaves the registry unchanged.
C8_NotifyAppends ==
    lastOp.op = "notify"
    => /\ result = "ok"
       /\ message_queue = pre.message_queue \o <<lastOp.message>>
       /\ subscribers = pre.subscribers
       /\ reactions = <<>>

\* A second, different topic is queued while the first topic has subscribers.
C8_Witness ==
    /\ lastOp.op = "notify"
    /\ Len(message_queue) = 2
    /\ message_queue[1] # message_queue[2]
    /\ Registered(subscribers, message_queue[1]) # <<>>

\* C9: subscribe succeeds, appends the subscriber at the end of the topic's
\* list (created when the topic is new) and leaves the other topics' lists and
\* the queue unchanged.
C9_SubscribeAppends ==
    lastOp.op = "subscribe"
    => /\ result = "ok"
       /\ DOMAIN subscribers = DOMAIN pre.subscribers \cup {lastOp.message}
       /\ subscribers[lastOp.message]
          = Registered(pre.subscribers, lastOp.message) \o <<lastOp.subscriber>>
       /\ \A t \in DOMAIN pre.subscribers \ {lastOp.message} :
              subscribers[t] = pre.subscribers[t]
       /\ message_queue = pre.message_queue
       /\ reactions = <<>>

\* A subscriber is appended to a list that already has two entries.
C9_Witness ==
    /\ lastOp.op = "subscribe"
    /\ Len(subscribers[lastOp.message]) = 3
    /\ subscribers[lastOp.message][1] # lastOp.subscriber
    /\ message_queue # <<>>

\* C10: an update whose queued messages all have topics absent from the
\* registry returns without running a reaction, leaves the registry as it was
\* (no key created) and empties the queue.
C10_UnknownTopicIsNoError ==
    (/\ lastOp.op = "update"
     /\ pre.message_queue # <<>>
     /\ \A i \in 1..Len(pre.message_queue) :
            pre.message_queue[i] \notin DOMAIN pre.subscribers)
    => /\ result = "ok"
       /\ reactions = <<>>
       /\ subscribers = pre.subscribers
       /\ message_queue = <<>>

\* "silence" is notified and delivered while only "ping" has subscribers.
C10_Witness ==
    /\ lastOp.op = "update"
    /\ pre.message_queue = <<"silence">>
    /\ "silence" \notin DOMAIN subscribers
    /\ Registered(subscribers, "ping") # <<>>
\* C11: during update, run(m) is called on a subscriber only if the subscriber
\* is in the registry list of topic m, and only for messages that are queued;
\* a subscriber registered for other topics only never reacts to m.
C11_RoutingIsExact ==
    lastOp.op = "update"
    => \A k \in 1..Len(reactions) :
           /\ reactions[k][1] \in Items(Registered(pre.subscribers, reactions[k][2]))
           /\ reactions[k][2] \in Items(pre.message_queue)

\* As in the doctest: First on one topic, Second on the other, both topics
\* published; each receives its own message only.
C11_Witness ==
    /\ UpdateReturned
    /\ Registered(subscribers, "ping") = <<"First">>
    /\ Registered(subscribers, "silence") = <<"Second">>
    /\ reactions = << <<"First", "ping">>, <<"Second", "silence">> >>

\* C19: when a run raises during update, the exception reaches the caller, the
\* calls made are those of the FIFO pass up to and including the first raising
\* run (no later subscriber, no later message), and the queue and the registry
\* are as they were before the call.
C19_RaiseAbortsAndKeepsQueue ==
    UpdateRaised
    => LET n == Len(reactions)
           all == Expected(pre.message_queue, pre.subscribers)
       IN  /\ result = "NotImplementedError"
           /\ n >= 1 /\ n <= Len(all)
           /\ \A k \in 1..n : reactions[k] = all[k]
           /\ run(reactions[n][1]) = "raise"
           /\ \A k \in 1..(n - 1) : run(reactions[k][1]) # "raise"
           /\ message_queue = pre.message_queue
           /\ subscribers = pre.subscribers

\* The first message was delivered completely, the second message's first
\* subscriber raised, and a later subscriber was left out.
C19_Witness ==
    /\ UpdateRaised
    /\ Len(pre.message_queue) = 2
    /\ Len(reactions) >= 2
    /\ reactions[Len(reactions)][2] = pre.message_queue[2]
    /\ reactions[1][2] = pre.message_queue[1]
    /\ Len(reactions) < Len(Expected(pre.message_queue, pre.subscribers))
\* C12: Publisher.publish(topic) leaves the publisher's provider as
\* Provider.notify(topic) does from the same state: the topic appended to the
\* queue, the registry unchanged, no reaction, no failure for any topic.
C12_PublishIsNotify ==
    lastOp.op = "Publisher.publish"
    => /\ Provider = notify(pre, lastOp.message).p
       /\ result = notify(pre, lastOp.message).result
       /\ message_queue = pre.message_queue \o <<lastOp.message>>
       /\ subscribers = pre.subscribers
       /\ reactions = <<>>

\* A topic that is already queued is published again.
C12_Witness ==
    /\ lastOp.op = "Publisher.publish"
    /\ Len(message_queue) = 2
    /\ message_queue[1] = message_queue[2]
    /\ DOMAIN subscribers # {}

\* C13: Subscriber.subscribe(topic) and Subscriber.unsubscribe(topic) leave
\* the provider as Provider.subscribe(topic, self) and
\* Provider.unsubscribe(topic, self) do from the same state, the handle added
\* or removed being the caller, and unsubscribe fails exactly when
\* Provider.unsubscribe does.
C13_SubscriberCallsForward ==
    /\ lastOp.op = "Subscriber.subscribe"
       => /\ Provider = subscribe(pre, lastOp.message, lastOp.subscriber).p
          /\ result = subscribe(pre, lastOp.message, lastOp.subscriber).result
          /\ Count(subscribers[lastOp.message], lastOp.subscriber)
             = Count(Registered(pre.subscribers, lastOp.message), lastOp.subscriber) + 1
    /\ lastOp.op = "Subscriber.unsubscribe"
       => /\ Provider = unsubscribe(pre, lastOp.message, lastOp.subscriber).p
          /\ result = unsubscribe(pre, lastOp.message, lastOp.subscriber).result
          /\ result # "ok"
             <=> Count(Registered(pre.subscribers, lastOp.message), lastOp.subscriber) = 0
          /\ result = "ok"
             => Count(subscribers[lastOp.message], lastOp.subscriber)
                = Count(pre.subscribers[lastOp.message], lastOp.subscriber) - 1

\* Second unsubscribes from a topic that only First is subscribed to, and the
\* call fails.
C13_Witness ==
    /\ lastOp.op = "Subscriber.unsubscribe"
    /\ lastOp.subscriber = "Second"
    /\ result = "ValueError"
    /\ subscribers[lastOp.message] = <<"First">>

\* C20: update fans a message out over the registry as it is when update
\* runs, not as it was at notify: a subscriber that joined the topic's list
\* after the notify reacts to the message, and a subscriber that was in the
\* list at the notify and is no longer in it does not.
C20_RegistryReadAtUpdate ==
    (UpdateReturned /\ Len(late.handled) = Len(pre.message_queue))
    => \A k \in 1..Len(pre.message_queue), s \in Subscribers :
           LET t == pre.message_queue[k]
               now == Registered(pre.subscribers, t)
           IN  /\ (s \in Items(now) /\ s \notin late.handled[k])
                  => Count(reactions, <<s, t>>) = Count(pre.message_queue, t) * Count(now, s)
               /\ (s \notin Items(now) /\ s \in late.handled[k])
                  => Count(reactions, <<s, t>>) = 0

\* "ping" was notified while First was its only subscriber; then First left
\* and Second joined; the update runs Second alone.
C20_Witness ==
    /\ UpdateReturned
    /\ pre.message_queue = <<"ping">>
    /\ late.handled = <<{"First"}>>
    /\ Registered(pre.subscribers, "ping") = <<"Second">>
    /\ reactions = << <<"Second", "ping">> >>
\* C14: after any constructions and writes, every SharedState object reads
\* the same state, the value of the most recent write, whichever object made
\* it (a construction that sets the state, its argument or "initialized",
\* counts as a write).
C14_InstancesShareState ==
    \A i \in 1..Len(borg.instances) : getattr_state(borg, i) = borg.lastWrite

\* Three objects; the third is written after the state was "foo", and the
\* first reads the new value.
C14_Witness ==
    /\ Len(borg.instances) = 3
    /\ borg.last = [op |-> "setattr", inst |-> 3, arg |-> "bar"]
    /\ hasattr(borg.before, "state") /\ borg.before["state"] = "foo"
    /\ getattr_state(borg, 1) = "bar"

\* C15: SharedState() never overwrites a state that is set: the state becomes
\* "initialized" only when the shared dictionary has no state, otherwise the
\* dictionary is as before and the new object reads the existing value.
C15_DefaultKeepsExistingState ==
    (borg.last.op = "SharedState" /\ borg.last.arg = None)
    => IF hasattr(borg.before, "state")
       THEN /\ borg.monostate = borg.before
            /\ getattr_state(borg, borg.last.inst) = borg.before["state"]
       ELSE /\ borg.monostate = setitem(NoAttrs, "state", "initialized")
            /\ getattr_state(borg, borg.last.inst) = "initialized"

\* As in the doctest: the state is "bar" when a third object is made without
\* a state.
C15_Witness ==
    /\ borg.last = [op |-> "SharedState", inst |-> 3, arg |-> None]
    /\ getattr_state(borg, 3) = "bar"
    /\ getattr_state(borg, 1) = "bar"
\* The classes the registry holds.
Registry_classes == {localizable.registry[k] : k \in DOMAIN localizable.registry}

\* C16: a subclass just declared with a language L that is not None, whatever
\* the letter case of L, is recorded in the registry and get_localizer(L)
\* returns an instance of it; a subclass declared with language None is not
\* recorded.
C16_DeclaredLanguageIsServed ==
    localizable.last.op = "class"
    => IF localizable.last.language # None
       THEN /\ localizable.last.cls \in Registry_classes
            /\ get_localizer(localizable.registry, localizable.last.language)
               = [result |-> "ok", instance_of |-> localizable.last.cls]
       ELSE localizable.last.cls \notin Registry_classes
\* C17: calculate_discount returns the price after the recipient's discount:
\* the price less 10% for tenpercent@foobar.com (what
\* TenPercentDiscountStrategy.calculate gives), the price less 50% for
\* fiftypercent@foobar.com (what FiftyPercentDiscountStrategy.calculate
\* gives), the price itself for any other recipient (the price in units,
\* the value returned in hundredths).
C17_DiscountedPrice ==
    order.calculated
    => IF order.recipient = "tenpercent@foobar.com"
       THEN /\ order.discount = order.price * 100 - order.price * 10
            /\ order.discount = TenPercentDiscountStrategy_calculate(order.price)
       ELSE IF order.recipient = "fiftypercent@foobar.com"
       THEN /\ order.discount = order.price * 100 - order.price * 50
            /\ order.discount = FiftyPercentDiscountStrategy_calculate(order.price)
       ELSE order.discount = order.price * 100

\* L is in ascending order / in descending order.
IsAscending(L) == \A i \in 1..(Len(L) - 1) : L[i] <= L[i + 1]
IsDescending(L) == \A i \in 1..(Len(L) - 1) : L[i] >= L[i + 1]

\* K is a permutation of L.
IsPermutation(K, L) ==
    /\ Len(K) = Len(L)
    /\ \A x \in Items(K) \cup Items(L) : Count(K, x) = Count(L, x)

\* C18: sort_data with Sorted returns the ascending permutation of the data,
\* with Reverse the descending permutation, which is the Sorted result read
\* backwards; a strategy returns the same list for every order of the same
\* numbers.
C18_StrategiesSort ==
    /\ magic.done["Sorted"]
       => IsAscending(magic.out["Sorted"]) /\ IsPermutation(magic.out["Sorted"], magic.data)
    /\ magic.done["Reverse"]
       => IsDescending(magic.out["Reverse"]) /\ IsPermutation(magic.out["Reverse"], magic.data)
    /\ (magic.done["Sorted"] /\ magic.done["Reverse"])
       => /\ Len(magic.out["Reverse"]) = Len(magic.out["Sorted"])
          /\ \A i \in 1..Len(magic.out["Sorted"]) :
                 magic.out["Reverse"][i]
                 = magic.out["Sorted"][Len(magic.out["Sorted"]) + 1 - i]
    /\ (magic.last = "sort_data" /\ magic.again)
       => magic.out[magic.sortable] = magic.earlier

\* Three numbers, not all different and in neither order, sorted by both
\* strategies, the last one for the second time after a reordering.
C18_Witness ==
    /\ magic.last = "sort_data" /\ magic.again
    /\ magic.done["Sorted"] /\ magic.done["Reverse"]
    /\ magic.data = <<0, 1, 0>>
    /\ magic.out["Reverse"] = <<1, 0, 0>>
\* C24: no call removes a topic from the registry.  The unsubscribe of a
\* topic's last subscriber leaves the topic bound to an empty list; an update
\* whose queued messages all have such a topic runs no reaction and returns;
\* an unsubscribe on such a topic raises ValueError and changes nothing.
C24_TopicsNeverShrink ==
    /\ DOMAIN pre.subscribers \subseteq DOMAIN subscribers
    /\ (lastOp.op = "unsubscribe" /\ result = "ok")
       => /\ lastOp.message \in DOMAIN subscribers
          /\ Len(subscribers[lastOp.message])
             = Len(pre.subscribers[lastOp.message]) - 1
          /\ Len(pre.subscribers[lastOp.message]) = 1
             => subscribers[lastOp.message] = <<>>
    /\ (/\ lastOp.op = "unsubscribe"
        /\ lastOp.message \in DOMAIN pre.subscribers
        /\ pre.subscribers[lastOp.message] = <<>>)
       => /\ result = "ValueError"
          /\ subscribers = pre.subscribers
          /\ message_queue = pre.message_queue
    /\ (/\ lastOp.op = "update"
        /\ \A i \in 1..Len(pre.message_queue) :
               /\ pre.message_queue[i] \in DOMAIN pre.subscribers
               /\ pre.subscribers[pre.message_queue[i]] = <<>>)
       => /\ result = "ok"
          /\ reactions = <<>>
          /\ message_queue = <<>>
          /\ subscribers = pre.subscribers

\* An unsubscribe has just failed on a topic that is still in the registry
\* with an empty list, a message of that topic waiting in the queue.
C24_Witness ==
    /\ lastOp.op = "unsubscribe"
    /\ lastOp.message \in DOMAIN pre.subscribers
    /\ pre.subscribers[lastOp.message] = <<>>
    /\ lastOp.message \in Items(message_queue)
    /\ result = "ValueError"

\* An update has just delivered a message of an emptied topic to nobody.
C24_UpdateOfEmptiedTopic ==
    /\ lastOp.op = "update"
    /\ pre.message_queue # <<>>
    /\ \A i \in 1..Len(pre.message_queue) :
           /\ pre.message_queue[i] \in DOMAIN pre.subscribers
           /\ pre.subscribers[pre.message_queue[i]] = <<>>
\* The run calls, with queue indices, that delivering q from index k on over
\* registry d has to make.
RECURSIVE ExpectedFrom(_, _, _)
ExpectedFrom(q, d, k) ==
    IF k > Len(q) THEN <<>>
    ELSE [n \in 1..Len(Registered(d, q[k])) |-> <<Registered(d, q[k])[n], q[k], k>>]
         \o ExpectedFrom(q, d, k + 1)

\* The update followed step by step has returned / is running.
WalkReturned == walk.pc = "idle" /\ walk.result = "ok"
WalkRunning == walk.pc # "idle"

\* When an update during which reactions published messages returns: the
\* queue is empty; the queue it cleared is the queue it began with followed by
\* the published messages; every message of it, published ones included, had
\* its turn in queue order; and with the registry unchanged the run calls are
\* the fan-out of that whole queue.
C21_ProcessedInSameUpdate ==
    WalkReturned
    => /\ message_queue = <<>>
       /\ Len(walk.cleared)
          = Len(walk.began.message_queue) + (walk.granted - walk.replies)
       /\ \A k \in 1..Len(walk.cleared) :
              walk.cleared[k] = IF k <= Len(walk.began.message_queue)
                                THEN walk.began.message_queue[k]
                                ELSE EchoMessage
       /\ walk.i = Len(walk.cleared) + 1
       /\ \A a, b \in 1..Len(walk.calls) :
              a < b => walk.calls[a][3] <= walk.calls[b][3]
       /\ subscribers = walk.began.subscribers
          => walk.calls = ExpectedFrom(walk.cleared, subscribers, 1)

\* C21: a message that a reaction notifies during update is processed by that
\* same update, after every message queued before it, the queue is empty when
\* update returns, and an update whose reactions publish at most MaxReplies
\* messages always comes to its end.
C21_ReentrantNotify ==
    /\ []C21_ProcessedInSameUpdate
    /\ WalkRunning ~> ~WalkRunning

\* An update has returned during which Echo published a message that was
\* then delivered to a subscriber.
C21_Witness ==
    /\ WalkReturned
    /\ walk.began.message_queue # <<>>
    /\ walk.granted - walk.replies >= 1
    /\ \E n \in 1..Len(walk.calls) :
           walk.calls[n][3] > Len(walk.began.message_queue)

\* C22: when a reaction unsubscribes its own subscriber from the topic being
\* delivered, every other subscriber registered once for that topic is run
\* exactly once for that message.
C22_OthersStillReact ==
    WalkReturned
    => \A n \in 1..Len(walk.calls) :
           walk.calls[n][1] = "Leaver"
           => \A s \in Items(walk.began.subscribers[walk.calls[n][2]]) \ {"Leaver"} :
                  Count(walk.began.subscribers[walk.calls[n][2]], s) = 1
                  => Count(walk.calls, <<s, walk.calls[n][2], walk.calls[n][3]>>) = 1

\* C23 as stated: with notify calls of another thread between the steps of
\* update, every message that clear() removes has had its turn and, the
\* registry unchanged, its fan-out.
C23_NoMessageLost ==
    WalkReturned
    => /\ walk.i = Len(walk.cleared) + 1
       /\ subscribers = walk.began.subscribers
          => walk.calls = ExpectedFrom(walk.cleared, subscribers, 1)

\* C23: with notify calls of another thread between the steps of update, the
\* messages in the queue when the outer loop ends have all had their turn and
\* their fan-out, those notified during the loops included; the messages
\* notified after the loop has ended and before clear() are removed by
\* clear() without a turn.
C23_LostOnlyAfterLoop ==
    WalkReturned
    => /\ message_queue = <<>>
       /\ walk.i = walk.exit + 1
       /\ Len(walk.cleared) = walk.exit + walk.late
       /\ \A n \in 1..Len(walk.calls) : walk.calls[n][3] <= walk.exit
       /\ subscribers = walk.began.subscribers
          => walk.calls = ExpectedFrom(SubSeq(walk.cleared, 1, walk.exit),
                                       subscribers, 1)

\* An update has returned that delivered a message notified by the other
\* thread during its loops and cleared one notified after them.
C23_Witness ==
    /\ WalkReturned
    /\ walk.granted = 0
    /\ walk.exit > Len(walk.began.message_queue)
    /\ walk.late >= 1
    /\ \E n \in 1..Len(walk.calls) :
           walk.calls[n][3] > Len(walk.began.message_queue)
====
